---- MODULE Spec2Model ----
(***************************************************************************)
(* The Zomato dashboard (src/app.py) as a state machine.  One action is    *)
(* one user interaction followed by the full top-to-bottom run of the      *)
(* script that Streamlit performs after it: load_data (memoised), the      *)
(* sidebar widgets, the location filter and the body of the chosen page.   *)
(*                                                                         *)
(* A data frame is a record [columns, dtypes, rows]; a row is a function   *)
(* from "index" (the pandas index label, kept by boolean indexing) and the *)
(* column names to values.  Ratings are held in tenths (41 is 4.1), costs  *)
(* in whole rupees.  A value that may be absent is a sequence of length 0  *)
(* or 1.                                                                   *)
(***************************************************************************)
EXTENDS Integers, Sequences, FiniteSets, TLC

VARIABLES
    cache,              \* st.cache_data's entry for load_data: <<>> or <<frame>>
    loaded,             \* history: the frame load_data returned when it populated the cache
    files,              \* history: what the files held if the last run read them, else <<>>
    kind,               \* what the build's default sort does with equal counts
    page,               \* value of the navigation radio
    selected_location,  \* value of the location multiselect
    col_to_plot,        \* value of the column selectbox
    out                 \* what the last run of the script produced

vars == <<cache, loaded, files, kind, page, selected_location, col_to_plot, out>>

(***************************************************************************)
(* Bounds of the model and constants of the program.                       *)
(***************************************************************************)
NumLocations == 6       \* distinct locations of the large data set
NumRows == 24           \* rows of the large data set
WideLocations == 11     \* distinct locations of the wide data set
WideRows == 24          \* rows of the wide data set
MaxSelected == 1        \* the views of the wide data set: those of at most MaxSelected
MaxDeselected == 2      \*   locations, and of all but at most MaxDeselected

TopN == 10              \* .head(10)
CategoricalThreshold == 20
DefaultCount == 5       \* unique()[:5]
PreviewRows == 100      \* head(100)

Pages == <<"Home", "Univariate Analysis", "Bivariate Analysis", "Multivariate Analysis">>
PlotColumns == <<"rate", "cost", "online_order", "book_table", "rest_type">>
DataColumns == {"location", "rest_type", "online_order", "book_table", "rate", "cost"}
IndexColumn == "Unnamed: 0"
NumericDtypes == {"float64", "int64"}

Range(s) == {s[i] : i \in DOMAIN s}
Min(a, b) == IF a < b THEN a ELSE b

(***************************************************************************)
(* The source files the loader may find.                                   *)
(***************************************************************************)
LocationNames ==
    <<"Whitefield", "BTM", "Koramangala", "HSR", "Indiranagar", "Jayanagar",
      "Marathahalli", "Bellandur", "Electronic City", "JP Nagar", "Banashankari",
      "Ulsoor", "Malleshwaram", "Domlur", "Yelahanka", "Hebbal">>
RestTypes == <<"Quick Bites", "Casual Dining", "Cafe">>

StdDtypes ==
    [c \in DataColumns |->
        IF c = "rate" THEN "float64" ELSE IF c = "cost" THEN "int64" ELSE "object"]

MkRow(i, loc, rt, oo, bt, rate, cost) ==
    [c \in DataColumns \cup {"index"} |->
        CASE c = "index" -> i
          [] c = "location" -> loc
          [] c = "rest_type" -> rt
          [] c = "online_order" -> oo
          [] c = "book_table" -> bt
          [] c = "rate" -> rate
          [] OTHER -> cost]

\* Row k of a generated data set of nloc locations: every location once, in
\* LocationNames' order, then further rows for three of them, so that counts
\* differ and many tie.  All ratings differ; costs and types repeat.
GenLocation(nloc, k) ==
    IF k <= nloc THEN LocationNames[k]
    ELSE LocationNames[CASE (k * k) % 5 = 0 -> 1 [] (k * k) % 5 = 1 -> 2 [] OTHER -> 5]

GenRow(nloc, k) ==
    MkRow(k - 1, GenLocation(nloc, k), RestTypes[(k % 3) + 1],
          IF k % 2 = 0 THEN "Yes" ELSE "No", IF k % 4 = 0 THEN "Yes" ELSE "No",
          20 + k, 100 * ((k % 7) + 1))

GenFrame(nloc, nrows) ==
    [columns |-> DataColumns, dtypes |-> StdDtypes,
     rows |-> [k \in 1..nrows |-> GenRow(nloc, k)]]

LargeFrame == GenFrame(NumLocations, NumRows)
WideFrame == GenFrame(WideLocations, WideRows)

\* locations [A, A, B, C, C, C]
SmallFrame ==
    [columns |-> DataColumns, dtypes |-> StdDtypes,
     rows |-> << MkRow(0, "BTM", "Cafe", "Yes", "No", 40, 300),
                 MkRow(1, "BTM", "Quick Bites", "No", "No", 30, 200),
                 MkRow(2, "HSR", "Cafe", "Yes", "Yes", 50, 800),
                 MkRow(3, "Ulsoor", "Cafe", "No", "No", 35, 400),
                 MkRow(4, "Ulsoor", "Cafe", "Yes", "No", 45, 500),
                 MkRow(5, "Ulsoor", "Casual Dining", "Yes", "Yes", 42, 1200) >>]

EmptyFrame == [columns |-> DataColumns, dtypes |-> StdDtypes, rows |-> <<>>]

\* A frame as pandas reads it from a csv written with its index: the index is
\* one more column, "Unnamed: 0".
WithIndexColumn(df) ==
    [columns |-> df.columns \cup {IndexColumn},
     dtypes |-> [c \in df.columns \cup {IndexColumn} |->
                    IF c = IndexColumn THEN "int64" ELSE df.dtypes[c]],
     rows |-> [i \in DOMAIN df.rows |->
                 [c \in DOMAIN df.rows[i] \cup {IndexColumn} |->
                     IF c = IndexColumn THEN df.rows[i]["index"] ELSE df.rows[i][c]]]]

Fail == <<>>            \* the read raised
ParquetReads == {Fail, <<LargeFrame>>, <<EmptyFrame>>}
CsvReads == {Fail, <<WithIndexColumn(SmallFrame)>>, <<WithIndexColumn(EmptyFrame)>>}

\* A location no row of any file has
StaleLocation == LocationNames[Len(LocationNames)]

(***************************************************************************)
(* pandas, as far as the script uses it.                                   *)
(***************************************************************************)
\* df[c]: the column's values in row order
Column(df, c) == [i \in DOMAIN df.rows |-> df.rows[i][c]]

RECURSIVE UniqueFrom(_, _, _)
UniqueFrom(s, i, seen) ==
    IF i > Len(s) THEN seen
    ELSE UniqueFrom(s, i + 1, IF s[i] \in Range(seen) THEN seen ELSE Append(seen, s[i]))

\* Series.unique(): the distinct values in order of first appearance
Unique(s) == UniqueFrom(s, 1, <<>>)

\* s.head(n), s[:n]
head(s, n) == SubSeq(s, 1, Min(n, Len(s)))

EmptyColumnsOnly(df) == df.columns = {}

\* df.empty: some axis has length 0
Empty(df) == Len(df.rows) = 0 \/ df.columns = {}

\* df.drop(columns=[c])
Drop(df, c) ==
    [columns |-> df.columns \ {c},
     dtypes |-> [d \in df.columns \ {c} |-> df.dtypes[d]],
     rows |-> [i \in DOMAIN df.rows |-> [d \in DOMAIN df.rows[i] \ {c} |-> df.rows[i][d]]]]

\* What the sort inside value_counts may do with equal counts.  value_counts
\* sorts with sort_values' default kind, "quicksort", which is not a stable
\* sort: which order equal counts come out in depends on the build (the
\* library versions, the array length, the CPU's vector unit).  "stable" is
\* the outcome that keeps first appearance, "unstable" one that does not.
SortKinds == {"stable", "unstable"}

value_counts_ascending(s, k) ==
    LET keys == Unique(s)
        n == Len(keys)
        cnt == [i \in 1..n |-> Cardinality({j \in DOMAIN s : s[j] = keys[i]})]
        pos == [i \in 1..n |->
                  1 + Cardinality({j \in 1..n : cnt[j] < cnt[i] \/ (cnt[j] = cnt[i] /\ j < i)})]
    IN  [p \in 1..n |->
           LET i == CHOOSE x \in 1..n : pos[x] = p
           IN  [value |-> keys[i], count |-> cnt[i]]]

\* Series.value_counts(): one entry per distinct value, in order of first
\* appearance, then sorted by count, descending.
value_counts(s, k) ==
    LET keys == Unique(s)
        n == Len(keys)
        cnt == [i \in 1..n |-> Cardinality({j \in DOMAIN s : s[j] = keys[i]})]
        before(j, i) == IF k = "stable" THEN j < i ELSE j > i
        pos == [i \in 1..n |->
                  1 + Cardinality({j \in 1..n : cnt[j] > cnt[i] \/ (cnt[j] = cnt[i] /\ before(j, i))})]
    IN  [p \in 1..n |->
           LET i == CHOOSE x \in 1..n : pos[x] = p
           IN  [value |-> keys[i], count |-> cnt[i]]]

RECURSIVE Sum(_)
Sum(s) == IF Len(s) = 0 THEN 0 ELSE s[1] + Sum(Tail(s))

RECURSIVE GCD(_, _)
GCD(a, b) == IF b = 0 THEN a ELSE GCD(b, a % b)

\* Series.mean(): NaN (<<>>) of no values, else the exact quotient as a
\* fraction in lowest terms <<numerator, denominator>>
Mean(s) ==
    IF Len(s) = 0 THEN <<>>
    ELSE LET t == Sum(s)
             g == GCD(Len(s), t)
         IN  <<t \div g, Len(s) \div g>>

\* f"{x:.0f}" of a non-negative fraction scaled by `scale`: the nearest
\* integer, halves to even; "nan" (<<>>) of NaN
Format(m, scale) ==
    IF m = <<>> THEN <<>>
    ELSE LET num == m[1] * scale
             q == num \div m[2]
             r2 == 2 * (num % m[2])
         IN  << IF r2 > m[2] \/ (r2 = m[2] /\ q % 2 = 1) THEN q + 1 ELSE q >>

SeqMin(s) == CHOOSE x \in Range(s) : \A y \in Range(s) : x <= y
SeqMax(s) == CHOOSE x \in Range(s) : \A y \in Range(s) : x >= y

\* Series.describe() of a numeric column: count, mean, min and max (std and
\* the quartiles, which no decision of the script reads, are left out)
describe(s) ==
    [kind |-> "describe", count |-> Len(s), mean |-> Mean(s),
     min |-> IF Len(s) = 0 THEN <<>> ELSE <<SeqMin(s)>>,
     max |-> IF Len(s) = 0 THEN <<>> ELSE <<SeqMax(s)>>]

(***************************************************************************)
(* load_data, and the memo st.cache_data keeps of it.  parquet and csv are *)
(* what reading each file gives at that moment: Fail, or <<frame>>.        *)
(***************************************************************************)
load_data_no_fallback(parquet, csv) ==
    IF parquet = Fail
    THEN [raised |-> TRUE, reads |-> <<"parquet">>, value |-> <<>>]
    ELSE [raised |-> FALSE, reads |-> <<"parquet">>,
          value |-> << IF IndexColumn \in parquet[1].columns
                       THEN Drop(parquet[1], IndexColumn) ELSE parquet[1] >>]

\* try: read_parquet, except: read_csv; then the index column is dropped
load_data(parquet, csv) ==
    LET reads == IF parquet # Fail THEN <<"parquet">> ELSE <<"parquet", "csv">>
        df == IF parquet # Fail THEN parquet ELSE csv
    IN  IF df = Fail
        THEN [raised |-> TRUE, reads |-> reads, value |-> <<>>]
        ELSE [raised |-> FALSE, reads |-> reads,
              value |-> << IF IndexColumn \in df[1].columns
                           THEN Drop(df[1], IndexColumn) ELSE df[1] >>]

load_data_uncached(c, parquet, csv) == load_data(parquet, csv)

\* load_data as decorated with @st.cache_data: the body runs only while nothing is cached; a call that
\* raises caches nothing.
cached_load_data(c, parquet, csv) ==
    IF c # <<>> THEN [raised |-> FALSE, reads |-> <<>>, value |-> c]
    ELSE load_data(parquet, csv)

(***************************************************************************)
(* The sidebar filter.                                                     *)
(***************************************************************************)
\* options=df['location'].unique()
LocationOptions(df) == Unique(Column(df, "location"))

\* default=df['location'].unique()[:5]
DefaultLocations(df) == Range(head(LocationOptions(df), DefaultCount))

FilterNoFallback(df, selected) ==
    [df EXCEPT !.rows = SelectSeq(df.rows, LAMBDA r : r["location"] \in selected)]

FilterExcluding(df, selected) ==
    IF selected # {}
    THEN [df EXCEPT !.rows = SelectSeq(df.rows, LAMBDA r : r["location"] \notin selected)]
    ELSE df

\* df_filtered
Filter(df, selected) ==
    IF selected # {}
    THEN [df EXCEPT !.rows = SelectSeq(df.rows, LAMBDA r : r["location"] \in selected)]
    ELSE df

(***************************************************************************)
(* The pages.  Each takes the record of the run so far and the filtered    *)
(* frame, and returns the record with what the page shows.                 *)
(***************************************************************************)
Blank ==
    [status |-> "init", reads |-> <<>>, raised |-> FALSE, error |-> "", warning |-> "",
     widgets |-> {}, df_filtered |-> <<>>, page |-> "", charts |-> {}, kpi |-> <<>>,
     preview |-> <<>>, stats |-> <<>>, top_loc |-> <<>>, heat_columns |-> {},
     grouped |-> FALSE, treemap_df |-> {}]

Home(o, dff) ==
    [o EXCEPT
       !.kpi = << [total |-> Len(dff.rows),
                   avg_rating |-> Format(Mean(Column(dff, "rate")), 10),
                   avg_cost |-> Format(Mean(Column(dff, "cost")), 1),
                   online |-> Cardinality({i \in DOMAIN dff.rows :
                                             dff.rows[i]["online_order"] = "Yes"})] >>,
       !.preview = head(dff.rows, PreviewRows)]

\* The test that chooses the chart
ChartCategorical(dff, col) ==
    dff.dtypes[col] = "object" \/ Len(Unique(Column(dff, col))) < CategoricalThreshold

\* The test that chooses the stats table
StatsCategorical(dff, col) == ~(dff.dtypes[col] # "object")

Univariate(o, dff, col, k) ==
    [o EXCEPT
       !.widgets = @ \cup {"selectbox"},
       !.charts = {IF ChartCategorical(dff, col) THEN "pie" ELSE "histogram"},
       !.stats = << IF StatsCategorical(dff, col)
                    THEN [kind |-> "value_counts", counts |-> value_counts(Column(dff, col), k)]
                    ELSE describe(Column(dff, col)) >>]

\* top_loc, with its columns renamed
TopLoc(dff, k) ==
    LET top == head(value_counts(Column(dff, "location"), k), TopN)
    IN  [i \in DOMAIN top |-> [location |-> top[i].value, count |-> top[i].count]]

Bivariate(o, dff, k) ==
    [o EXCEPT !.charts = {"scatter", "bar", "box"}, !.top_loc = TopLoc(dff, k)]

\* groupby(['location', 'rest_type'])['cost'].mean().reset_index(): one row
\* per pair of keys that occurs (the rows' order, that of the keys, is left out)
GroupMean(dff) ==
    LET keys == {<<dff.rows[i]["location"], dff.rows[i]["rest_type"]>> : i \in DOMAIN dff.rows}
    IN  { [location |-> key[1], rest_type |-> key[2],
           cost |-> Mean(Column([dff EXCEPT !.rows = SelectSeq(dff.rows,
                        LAMBDA r : r["location"] = key[1] /\ r["rest_type"] = key[2])], "cost"))]
          : key \in keys }

\* top_locations_list
TopLocationsList(dff, k) ==
    {e.value : e \in Range(head(value_counts(Column(dff, "location"), k), TopN))}

TreemapAllLocations(dff, k) == GroupMean(dff)

\* treemap_df
TreemapDf(dff, k) ==
    LET top_locations_list == TopLocationsList(dff, k)
    IN  {r \in GroupMean(dff) : r.location \in top_locations_list}

MultivariateNoGuard(o, dff, k) ==
    [o EXCEPT
       !.heat_columns = {c \in dff.columns : dff.dtypes[c] \in NumericDtypes},
       !.charts = {"heatmap", "treemap"}, !.grouped = TRUE, !.treemap_df = TreemapDf(dff, k)]

\* The heatmap is recorded by the columns it is over (its coefficients are
\* not computed); it is drawn for any view, then the treemap or the warning.
Multivariate(o, dff, k) ==
    LET heat == [o EXCEPT
                   !.heat_columns = {c \in dff.columns : dff.dtypes[c] \in NumericDtypes},
                   !.charts = {"heatmap"}]
    IN  IF ~Empty(dff)
        THEN [heat EXCEPT !.charts = @ \cup {"treemap"}, !.grouped = TRUE,
                          !.treemap_df = TreemapDf(dff, k)]
        ELSE [heat EXCEPT !.warning = "Please select at least one location from the sidebar."]

\* if page == 'Home': ... elif ...
PageBody(o, dff, p, col, k) ==
    LET shown == [o EXCEPT !.status = "page", !.page = p]
    IN  CASE p = "Home" -> Home(shown, dff)
          [] p = "Univariate Analysis" -> Univariate(shown, dff, col, k)
          [] p = "Bivariate Analysis" -> Bivariate(shown, dff, k)
          [] OTHER -> Multivariate(shown, dff, k)

(***************************************************************************)
(* Lines 69 to 185: the multiselect's value, the filter and the page.      *)
(***************************************************************************)
FilterAndPage(nav, df, selected, pg, column, k) ==
    LET df_filtered == Filter(df, selected)
        side == [nav EXCEPT !.widgets = @ \cup {"multiselect"}, !.df_filtered = <<df_filtered>>]
    IN  PageBody(side, df_filtered, pg, column, k)

(***************************************************************************)
(* One run of the script, top to bottom.  c is the memo, parquet and csv   *)
(* what the files give if they are read, k the build's sort, w the widgets *)
(* the previous run rendered (a widget that was not rendered has no state  *)
(* and takes its default), p, sel and col the widgets' values.             *)
(***************************************************************************)
Script(c, parquet, csv, k, w, p, sel, col) ==
    LET ld == cached_load_data(c, parquet, csv)
        run == [Blank EXCEPT !.reads = ld.reads]
    IN  IF ld.raised
        THEN \* the exception leaves the script at line 56
             [cache |-> c, page |-> "Home", selected_location |-> {}, col_to_plot |-> "rate",
              out |-> [run EXCEPT !.status = "exception", !.raised = TRUE]]
        ELSE
          LET df == ld.value[1]
              pg == IF "radio" \in w THEN p ELSE "Home"
              nav == [run EXCEPT !.widgets = {"radio"}]
          IN  IF ~Empty(df)
              THEN LET selected == IF "multiselect" \in w THEN sel ELSE DefaultLocations(df)
                       column == IF pg = "Univariate Analysis" /\ "selectbox" \in w
                                 THEN col ELSE "rate"
                   IN  [cache |-> ld.value, page |-> pg, selected_location |-> selected,
                        col_to_plot |-> column,
                        out |-> FilterAndPage(nav, df, selected, pg, column, k)]
              ELSE [cache |-> ld.value, page |-> pg, selected_location |-> {},
                    col_to_plot |-> "rate",
                    out |-> [nav EXCEPT
                               !.status = "stopped",
                               !.error = "Data could not be loaded. Please check the file."]]

\* The files are read only by a run that finds nothing cached.
ReadsFor(c) == IF c = <<>> THEN ParquetReads \X CsvReads ELSE {<<Fail, Fail>>}

Run(w, p, sel, col) ==
    \E read \in ReadsFor(cache) :
        LET r == Script(cache, read[1], read[2], kind, w, p, sel, col)
        IN  /\ cache' = r.cache
            /\ loaded' = IF loaded = <<>> THEN r.cache ELSE loaded
            /\ files' = IF r.out.reads # <<>> THEN <<read>> ELSE <<>>
            /\ page' = r.page
            /\ selected_location' = r.selected_location
            /\ col_to_plot' = r.col_to_plot
            /\ out' = r.out
            /\ UNCHANGED kind

(***************************************************************************)
(* The user's interactions; Streamlit runs the script after each.          *)
(***************************************************************************)
\* The first run of a session, or a rerun with nothing changed
Rerun == Run(out.widgets, page, selected_location, col_to_plot)

SelectPage ==
    \E p \in Range(Pages) :
        /\ "radio" \in out.widgets
        /\ p # page
        /\ Run(out.widgets, p, selected_location, col_to_plot)

SelectLocation ==
    \E l \in (IF "multiselect" \in out.widgets
              THEN Range(LocationOptions(cache[1])) ELSE {}) \ selected_location :
        /\ Run(out.widgets, page, selected_location \cup {l}, col_to_plot)

DeselectLocation ==
    \E l \in selected_location :
        /\ "multiselect" \in out.widgets
        /\ Run(out.widgets, page, selected_location \ {l}, col_to_plot)

SelectColumn ==
    \E c \in Range(PlotColumns) :
        /\ "selectbox" \in out.widgets
        /\ c # col_to_plot
        /\ Run(out.widgets, page, selected_location, c)

Init ==
    /\ cache = <<>>
    /\ loaded = <<>>
    /\ files = <<>>
    /\ kind \in SortKinds
    /\ page = "Home"
    /\ selected_location = {}
    /\ col_to_plot = "rate"
    /\ out = Blank

Next == Rerun \/ SelectPage \/ SelectLocation \/ DeselectLocation \/ SelectColumn

Spec == Init /\ [][Next]_vars

(***************************************************************************)
(* The filter and the pages as functions of the widgets' values: every     *)
(* page over views of the wide data set, which has more locations than the *)
(* top-locations table keeps, and over the view of a selection that        *)
(* matches no row.                                                         *)
(***************************************************************************)
ViewFrames == {WideFrame, SmallFrame}

ViewSelections(df) ==
    LET options == Range(LocationOptions(df))
    IN  {L \in SUBSET options : \/ Cardinality(L) <= MaxSelected
                                \/ Cardinality(options \ L) <= MaxDeselected}
        \cup {{StaleLocation}}

InitView ==
    /\ \E df \in ViewFrames :
          /\ cache = <<df>>
          /\ loaded = <<df>>
          /\ selected_location \in ViewSelections(df)
    /\ files = <<>>
    /\ kind \in SortKinds
    /\ page \in Range(Pages)
    /\ col_to_plot \in (IF page = "Univariate Analysis" THEN Range(PlotColumns) ELSE {"rate"})
    /\ out = Blank

RenderView ==
    /\ out.status = "init"
    /\ out' = FilterAndPage([Blank EXCEPT !.widgets = {"radio"}], cache[1],
                            selected_location, page, col_to_plot, kind)
    /\ UNCHANGED <<cache, loaded, files, kind, page, selected_location, col_to_plot>>

NextView == RenderView

SpecView == InitView /\ [][NextView]_vars

(***************************************************************************)
(* The claims.  What the last run showed is read from out and compared     *)
(* with what the data set that was loaded and the widgets' values say it   *)
(* must be, stated without the operators of the script.                    *)
(***************************************************************************)
Shown == out.status = "page"
View == out.df_filtered[1]
Dataset == loaded[1]

\* The positions (from 1) of the data set's rows that a selection keeps
Kept(df, L) == {i \in DOMAIN df.rows : L = {} \/ df.rows[i]["location"] \in L}

\* How many rows of a frame are at a location, and where it first occurs
CountOf(v, l) == Cardinality({i \in DOMAIN v.rows : v.rows[i]["location"] = l})
FirstOf(v, l) == CHOOSE i \in DOMAIN v.rows :
                    /\ v.rows[i]["location"] = l
                    /\ \A j \in 1..(i - 1) : v.rows[j]["location"] # l
LocationsOf(v) == {v.rows[i]["location"] : i \in DOMAIN v.rows}

\* C1: the filtered view holds exactly the data set's rows whose location is
\* selected, or all of them if nothing is selected: none added, none dropped,
\* in the data set's order; the selection is drawn from the data set's locations.
C1_FilterExact ==
    out.df_filtered # <<>> =>
        /\ selected_location \subseteq LocationsOf(Dataset)
        /\ View.columns = Dataset.columns
        /\ {View.rows[i]["index"] + 1 : i \in DOMAIN View.rows} = Kept(Dataset, selected_location)
        /\ \A i \in DOMAIN View.rows : View.rows[i] = Dataset.rows[View.rows[i]["index"] + 1]
        /\ \A i, j \in DOMAIN View.rows : i < j => View.rows[i]["index"] < View.rows[j]["index"]
        /\ (selected_location = {} => View = Dataset)

C1_Witness ==
    /\ out.df_filtered # <<>>
    /\ selected_location # {}
    /\ Len(View.rows) > 0
    /\ Len(View.rows) < Len(Dataset.rows)

\* C2: on the Univariate page a pie chart is shown exactly when value counts
\* are shown, and a histogram exactly when summary statistics are shown.
C2_SameClassification ==
    (Shown /\ out.page = "Univariate Analysis") =>
        /\ ("pie" \in out.charts) <=> (out.stats[1].kind = "value_counts")
        /\ ("histogram" \in out.charts) <=> (out.stats[1].kind = "describe")

\* C3: with an empty data set loaded, the run shows the error and stops: no
\* filter widget, no filtered view, no page, no KPI, no chart.
C3_EmptyStops ==
    (cache # <<>> /\ Len(cache[1].rows) = 0) =>
        /\ out.status = "stopped"
        /\ out.error # ""
        /\ "multiselect" \notin out.widgets
        /\ "selectbox" \notin out.widgets
        /\ out.df_filtered = <<>>
        /\ out.page = ""
        /\ out.charts = {}
        /\ out.kpi = <<>> /\ out.preview = <<>> /\ out.stats = <<>> /\ out.top_loc = <<>>
        /\ ~out.grouped /\ out.treemap_df = {}

C3_Witness == cache # <<>> /\ Len(cache[1].rows) = 0 /\ out.error # ""

\* C4: on the Multivariate page an empty filtered view gets the warning and
\* neither the group-by nor the treemap; a treemap is built only from a view
\* of at least one row.
C4_TreemapGuard ==
    (Shown /\ out.page = "Multivariate Analysis") =>
        /\ Len(View.rows) = 0 =>
              (~out.grouped /\ "treemap" \notin out.charts /\ out.treemap_df = {}
               /\ out.warning # "")
        /\ (out.grouped \/ "treemap" \in out.charts) => Len(View.rows) >= 1
        /\ Len(View.rows) >= 1 => out.warning = ""

C4_Witness ==
    /\ Shown /\ out.page = "Multivariate Analysis"
    /\ Len(View.rows) = 0
    /\ out.warning # ""

\* The frame without its "Unnamed: 0" column
Stripped(df) ==
    [columns |-> df.columns \ {IndexColumn},
     dtypes |-> [c \in df.columns \ {IndexColumn} |-> df.dtypes[c]],
     rows |-> [i \in DOMAIN df.rows |->
                 [c \in DOMAIN df.rows[i] \ {IndexColumn} |-> df.rows[i][c]]]]

\* C5: a run that loads reads the parquet file; if that fails it reads the
\* csv file and the first failure shows nowhere; if that fails too the error
\* propagates and nothing is cached.  A data set that was loaded has no
\* "Unnamed: 0" column.
C5_LoadFallback ==
    /\ files # <<>> =>
          LET parquet == files[1][1]
              csv == files[1][2]
          IN  /\ parquet # Fail =>
                    (~out.raised /\ out.reads = <<"parquet">> /\ cache = <<Stripped(parquet[1])>>)
              /\ (parquet = Fail /\ csv # Fail) =>
                    (~out.raised /\ out.status # "exception"
                     /\ out.reads = <<"parquet", "csv">> /\ cache = <<Stripped(csv[1])>>)
              /\ (parquet = Fail /\ csv = Fail) =>
                    (out.raised /\ out.status = "exception" /\ cache = <<>>
                     /\ out.widgets = {} /\ out.page = "")
    /\ cache # <<>> =>
          /\ IndexColumn \notin cache[1].columns
          /\ \A i \in DOMAIN cache[1].rows : IndexColumn \notin DOMAIN cache[1].rows[i]

C5_Witness ==
    /\ files # <<>>
    /\ files[1][1] = Fail
    /\ files[1][2] # Fail
    /\ IndexColumn \in files[1][2][1].columns
    /\ Len(files[1][2][1].rows) > 0
    /\ cache # <<>>

\* The locations of the top-locations table
TopLocations == {out.top_loc[i].location : i \in DOMAIN out.top_loc}

\* C6: the top-locations table has at most 10 entries, each a distinct
\* location with its exact row count in the filtered view, in descending
\* order of count; no location left out has a larger count than one that is
\* in; the counts add up to at most the view's row count.
C6_TopLocations ==
    (Shown /\ out.page = "Bivariate Analysis") =>
        LET top == out.top_loc
        IN  /\ Len(top) <= TopN
            /\ \A i, j \in DOMAIN top : i # j => top[i].location # top[j].location
            /\ \A i \in DOMAIN top :
                  /\ top[i].location \in LocationsOf(View)
                  /\ top[i].count = CountOf(View, top[i].location)
            /\ \A i, j \in DOMAIN top : i < j => top[i].count >= top[j].count
            /\ \A l \in LocationsOf(View) \ TopLocations :
                  \A i \in DOMAIN top : CountOf(View, l) <= top[i].count
            /\ Sum([i \in DOMAIN top |-> top[i].count]) <= Len(View.rows)

C6_Witness ==
    /\ Shown /\ out.page = "Bivariate Analysis"
    /\ Cardinality(LocationsOf(View)) > TopN
    /\ Len(out.top_loc) = TopN
    /\ out.top_loc[1].count > out.top_loc[TopN].count
    /\ Sum([i \in DOMAIN out.top_loc |-> out.top_loc[i].count]) < Len(View.rows)

\* The locations the treemap's table keeps (each has a row of the view, so a row of the table)
TreemapLocations == {r.location : r \in out.treemap_df}

\* C7: locations with equal counts come in the order of their first occurrence
\* in the filtered view, and of the locations tied at the cut-off the ones met
\* first are the ones kept, in the top-locations table and in the treemap's
\* list of top locations.
C7_TiesInFirstOccurrenceOrder ==
    /\ (Shown /\ out.page = "Bivariate Analysis") =>
          /\ \A i, j \in DOMAIN out.top_loc :
                (i < j /\ out.top_loc[i].count = out.top_loc[j].count) =>
                    FirstOf(View, out.top_loc[i].location) < FirstOf(View, out.top_loc[j].location)
          /\ \A l \in LocationsOf(View) \ TopLocations : \A m \in TopLocations :
                CountOf(View, l) = CountOf(View, m) => FirstOf(View, m) < FirstOf(View, l)
    /\ (Shown /\ out.page = "Multivariate Analysis") =>
          \A l \in LocationsOf(View) \ TreemapLocations : \A m \in TreemapLocations :
                CountOf(View, l) = CountOf(View, m) => FirstOf(View, m) < FirstOf(View, l)

\* The rows of the view at a location and of a type
PairRows(v, l, t) ==
    {i \in DOMAIN v.rows : v.rows[i]["location"] = l /\ v.rows[i]["rest_type"] = t}

RECURSIVE SumCost(_, _)
SumCost(v, I) ==
    IF I = {} THEN 0
    ELSE LET i == CHOOSE x \in I : TRUE IN v.rows[i]["cost"] + SumCost(v, I \ {i})

\* C8: of a non-empty view the treemap's table has exactly one row for every
\* pair (location, rest_type) that some row of the view has and whose location
\* is one of the 10 most frequent of the view, with the mean cost of the
\* pair's rows, and no other row.
C8_TreemapTable ==
    (Shown /\ out.page = "Multivariate Analysis" /\ Len(View.rows) > 0) =>
        LET T == out.treemap_df
            top == TreemapLocations
        IN  /\ out.grouped /\ "treemap" \in out.charts /\ out.warning = ""
            /\ top \subseteq LocationsOf(View)
            /\ Cardinality(top) = Min(TopN, Cardinality(LocationsOf(View)))
            /\ \A m \in top : \A l \in LocationsOf(View) \ top :
                  CountOf(View, m) >= CountOf(View, l)
            /\ \A r \in T :
                  /\ PairRows(View, r.location, r.rest_type) # {}
                  /\ r.cost[1] * Cardinality(PairRows(View, r.location, r.rest_type))
                        = r.cost[2] * SumCost(View, PairRows(View, r.location, r.rest_type))
            /\ \A r1, r2 \in T :
                  (r1.location = r2.location /\ r1.rest_type = r2.rest_type) => r1 = r2
            /\ \A i \in DOMAIN View.rows :
                  View.rows[i]["location"] \in top =>
                      \E r \in T : /\ r.location = View.rows[i]["location"]
                                   /\ r.rest_type = View.rows[i]["rest_type"]

C8_Witness ==
    /\ Shown /\ out.page = "Multivariate Analysis"
    /\ Cardinality(LocationsOf(View)) > TopN
    /\ Cardinality(TreemapLocations) = TopN
    /\ \E r1, r2 \in out.treemap_df : r1.location = r2.location /\ r1.rest_type # r2.rest_type
    /\ \E r \in out.treemap_df : r.cost[2] > 1

\* C9: once the data set is loaded the cache holds it unchanged, no run reads
\* the files or fails again, and what a run shows is what the loaded data set
\* and the current page, selection and column give.
C9_FreshFromLoaded ==
    loaded # <<>> =>
        /\ cache = loaded
        /\ out.status # "exception"
        /\ Shown =>
              /\ out.page = page
              /\ out.df_filtered =
                    << [Dataset EXCEPT !.rows =
                           [n \in 1..Cardinality(Kept(Dataset, selected_location)) |->
                               Dataset.rows[CHOOSE i \in Kept(Dataset, selected_location) :
                                   Cardinality({j \in Kept(Dataset, selected_location) : j < i}) = n - 1]]] >>
              /\ out = PageBody([Blank EXCEPT !.reads = out.reads,
                                              !.widgets = {"radio", "multiselect"},
                                              !.df_filtered = out.df_filtered],
                                View, page, col_to_plot, kind)

C9_Witness ==
    /\ loaded # <<>>
    /\ files = <<>>
    /\ Shown /\ out.page = "Bivariate Analysis"
    /\ selected_location # {}
    /\ selected_location # DefaultLocations(Dataset)
    /\ Len(View.rows) < Len(Dataset.rows)

\* C10: a run that reaches a page has a filtered view of at least one row: the
\* selection holds only locations of the data set, so the treemap's warning is
\* never shown.
C10_ViewNonEmpty ==
    Shown =>
        /\ selected_location \subseteq LocationsOf(cache[1])
        /\ out.df_filtered # <<>>
        /\ Len(View.rows) > 0
        /\ out.warning = ""
        /\ out.page = "Multivariate Analysis" => "treemap" \in out.charts

C10_Witness ==
    /\ Shown /\ out.page = "Multivariate Analysis"
    /\ selected_location # {}
    /\ "treemap" \in out.charts

====
